---- MODULE Spec2Model ----
(***************************************************************************)
(* California housing model service: src/src/model.py (path resolution,   *)
(* metadata/model loading, ModelService.predict_one, the factory           *)
(* build_default_service) and src/main.py (the FastAPI endpoints /health,  *)
(* /metadata, /predict built on one module-level service).                 *)
(*                                                                         *)
(* Python values are records [t, v]: t is the Python type, v the numeric   *)
(* content.  Finite floats are the integers -FloatMax..FloatMax; a result  *)
(* outside that range is an IEEE overflow to +-inf.                        *)
(***************************************************************************)
EXTENDS Integers, Sequences, FiniteSets, TLC

VARIABLES
    fs,          \* the set of paths that exist on the filesystem
    infoFile,    \* the JSON object stored in the metadata file(s)
    modelFile,   \* the model object pickled in the model file(s)
    phase,       \* "boot" | "ready" | "failed": import of main.py
    bootError,   \* the exception that aborted the import, if any
    loadedInfo,  \* what load_model_info returned during build_default_service
    bootPaths,   \* the paths build_default_service's defaults resolved to
    service,     \* the module-level ModelService of main.py
    readLog,     \* every file open so far: [path, during, ok]
    resp,        \* the outcome of the last HTTP request
    calls,       \* the predict_one activations, one per caller
    resolveIn,   \* the candidates of the last resolve_existing_path call
    resolveOut   \* and its outcome

vars == <<fs, infoFile, modelFile, phase, bootError, loadedInfo, bootPaths,
          service, readLog, resp, calls, resolveIn, resolveOut>>

-----------------------------------------------------------------------------
(* Bounds *)

\* finite floats are -FloatMax..FloatMax
FloatMax == 8
\* longest feature list / widest model considered
MaxFeatures == 2
\* longest candidate sequence handed to resolve_existing_path
MaxCands == 3
\* number of concurrent callers of predict_one
NumCallers == 2
\* number of PredictRequest fields kept (a prefix of the declared ones)
NumFields == 2

-----------------------------------------------------------------------------
(* Python values *)

F(n) == [t |-> "float", v |-> n]
PosInf == [t |-> "float_inf", v |-> 1]
NegInf == [t |-> "float_inf", v |-> -1]
NaN == [t |-> "float_nan", v |-> 0]
PyInt(n) == [t |-> "int", v |-> n]
\* a str holding the decimal text of n, such as "1"
NumStr(n) == [t |-> "str_num", v |-> n]
\* a str that is not the text of a number, such as "abc"
TextStr == [t |-> "str_text", v |-> 0]
PyNone == [t |-> "NoneType", v |-> 0]
Unset == [t |-> "unset", v |-> 0]

IsFloat(x) == x.t \in {"float", "float_inf", "float_nan"}
IsFinite(x) == x.t = "float"

\* exceptions: the class, the message text and the names the message lists
Exc(type, text, names) == [type |-> type, text |-> text, names |-> names]
NoExc == Exc("", "", << >>)
\* str(e): the message without the class
StrOf(e) == [text |-> e.text, names |-> e.names]

Returned(x) == [kind |-> "return", value |-> x, exc |-> NoExc]
Raised(e) == [kind |-> "raise", value |-> Unset, exc |-> e]
Pending == [kind |-> "none", value |-> Unset, exc |-> NoExc]

\* float(x) of Python: floats pass, ints and numeric text convert, other text
\* is a ValueError, None a TypeError
PyFloat(x) ==
    CASE IsFloat(x) -> Returned(x)
      [] x.t = "int" -> Returned(F(x.v))
      [] x.t = "str_num" -> Returned(F(x.v))
      [] x.t = "str_text" ->
            Raised(Exc("ValueError", "could not convert string to float", << >>))
      [] OTHER ->
            Raised(Exc("TypeError",
                       "float() argument must be a string or a real number", << >>))

\* the float nearest a real result: beyond the finite range it is +-inf
Saturate(n) ==
    IF n > FloatMax THEN PosInf ELSE IF n < -FloatMax THEN NegInf ELSE F(n)

-----------------------------------------------------------------------------
(* Feature names and the model artifact *)

\* the fields PredictRequest declares, in order
AllFields ==
    <<"MedInc", "HouseAge", "AveRooms", "AveBedrms",
      "Population", "AveOccup", "Latitude", "Longitude">>
RequestFields == SubSeq(AllFields, 1, NumFields)

RECURSIVE Dot(_, _, _)
Dot(coef, X, i) ==
    IF i > Len(coef) THEN 0 ELSE coef[i] * X[i].v + Dot(coef, X, i + 1)

\* a fitted linear regression over n inputs
LinearModel(n) == [coef |-> [i \in 1..n |-> i], intercept |-> 1]
NoModel == [coef |-> << >>, intercept |-> 0]

\* self.model.predict(X) on a one-row frame: the estimator rejects a row of the
\* wrong width, an empty row and a non-finite entry; otherwise it returns
\* intercept + coef . X
ModelPredict(model, X) ==
    IF Len(X) = 0 \/ Len(X) # Len(model.coef)
    THEN Raised(Exc("ValueError", "X has a different number of features", << >>))
    ELSE IF \E i \in 1..Len(X) : ~IsFinite(X[i])
    THEN Raised(Exc("ValueError", "Input X contains NaN or infinity", << >>))
    ELSE Returned(Saturate(model.intercept + Dot(model.coef, X, 1)))

-----------------------------------------------------------------------------
(* Paths and the loader *)

DEFAULT_MODEL_PATH == "models/model2_linear_regression.pkl"
DEFAULT_MODEL_INFO_PATH == "models/model_info.json"
ALT_MODEL_PATH == "notebooks/models/model2_linear_regression.pkl"
ALT_MODEL_INFO_PATH == "notebooks/models/model_info.json"
Paths ==
    {DEFAULT_MODEL_PATH, DEFAULT_MODEL_INFO_PATH, ALT_MODEL_PATH, ALT_MODEL_INFO_PATH}

PathResult(p) == [kind |-> "return", path |-> p, exc |-> NoExc]
PathRaised(e) == [kind |-> "raise", path |-> "", exc |-> e]
NoPathResult == [kind |-> "none", path |-> "", exc |-> NoExc]

\* the loop without its early return: the last existing candidate wins
RECURSIVE LastExistingFrom(_, _, _, _)
LastExistingFrom(candidates, exists, i, found) ==
    IF i > Len(candidates) THEN found
    ELSE LastExistingFrom(candidates, exists, i + 1,
             IF candidates[i] \in exists THEN PathResult(candidates[i]) ELSE found)

ResolveLastExisting(candidates, exists) ==
    LET r == LastExistingFrom(candidates, exists, 1, NoPathResult)
    IN  IF r.kind = "return" THEN r
        ELSE IF Len(candidates) = 0
        THEN PathRaised(Exc("IndexError", "tuple index out of range", << >>))
        ELSE PathResult(candidates[1])

\* for p in candidates: if p.exists(): return p
RECURSIVE FirstExistingFrom(_, _, _)
FirstExistingFrom(candidates, exists, i) ==
    IF i > Len(candidates) THEN NoPathResult
    ELSE IF candidates[i] \in exists THEN PathResult(candidates[i])
    ELSE FirstExistingFrom(candidates, exists, i + 1)

\* resolve_existing_path(*candidates); candidates[0] of an empty tuple is an
\* IndexError
ResolveExistingPath(candidates, exists) ==
    LET r == FirstExistingFrom(candidates, exists, 1)
    IN  IF r.kind = "return" THEN r
        ELSE IF Len(candidates) = 0
        THEN PathRaised(Exc("IndexError", "tuple index out of range", << >>))
        ELSE PathResult(candidates[1])

\* JSON values: [t, s, items]; items are the entries of a list
JStr(s) == [t |-> "str", s |-> s, items |-> << >>]
JNum == [t |-> "number", s |-> "", items |-> << >>]
JNull == [t |-> "null", s |-> "", items |-> << >>]
JList(items) == [t |-> "list", s |-> "", items |-> items]

\* info.get(key): None when the key is absent
Get(info, key) == IF key \in DOMAIN info THEN info[key] ELSE JNull

NoInfo == [loaded |-> FALSE, obj |-> << >>]
Loaded(obj) == [loaded |-> TRUE, obj |-> obj]

FileNotFound(path) ==
    Exc("FileNotFoundError", "No such file or directory: ", <<path>>)

\* the shape check with the all-strings half left out
IsListOnly(features) == features.t = "list"

\* isinstance(features, list) and all(isinstance(x, str) for x in features)
ValidFeatureList(features) ==
    /\ features.t = "list"
    /\ \A i \in 1..Len(features.items) : features.items[i].t = "str"

ConfigError ==
    Exc("ValueError", "model_info.json missing valid 'model2_features' list", << >>)

NoService == [model |-> NoModel, features |-> << >>]

\* build_default_service(model_path, model_info_path) over a filesystem: what it
\* opened, what load_model_info gave, and the service or the exception
BuildDefaultService(model_path, model_info_path, exists, infoObj, modelObj) ==
    IF model_info_path \notin exists
    THEN [reads |-> {[path |-> model_info_path, during |-> "startup", ok |-> FALSE]},
          info |-> NoInfo, exc |-> FileNotFound(model_info_path),
          service |-> NoService]
    ELSE LET features == Get(infoObj, "model2_features")
             r1 == [path |-> model_info_path, during |-> "startup", ok |-> TRUE]
         IN  IF ~ValidFeatureList(features)
             THEN [reads |-> {r1}, info |-> Loaded(infoObj), exc |-> ConfigError,
                   service |-> NoService]
             ELSE IF model_path \notin exists
             THEN [reads |-> {r1, [path |-> model_path, during |-> "startup",
                                   ok |-> FALSE]},
                   info |-> Loaded(infoObj), exc |-> FileNotFound(model_path),
                   service |-> NoService]
             ELSE [reads |-> {r1, [path |-> model_path, during |-> "startup",
                                   ok |-> TRUE]},
                   info |-> Loaded(infoObj), exc |-> NoExc,
                   service |->
                       [model |-> modelObj,
                        features |-> [i \in 1..Len(features.items) |->
                                         features.items[i].s]]]

-----------------------------------------------------------------------------
(* ModelService.predict_one, statement by statement *)

\* the check stopping at the first absent feature
MissingFirstOnly(features, payload) ==
    LET absent == {i \in 1..Len(features) : features[i] \notin DOMAIN payload}
    IN  IF absent = {} THEN << >>
        ELSE <<features[CHOOSE i \in absent : \A j \in absent : i <= j]>>

\* missing = [f for f in self.features if f not in payload]
RECURSIVE Missing(_, _)
Missing(features, payload) ==
    IF features = << >> THEN << >>
    ELSE (IF Head(features) \in DOMAIN payload THEN << >> ELSE <<Head(features)>>)
         \o Missing(Tail(features), payload)

MissingError(missing) == Exc("ValueError", "Missing features: ", missing)

\* row = {f: float(payload[f]) for f in self.features}: the comprehension
\* converts in list order and stops at the first value float() rejects
RECURSIVE CoerceFrom(_, _, _, _)
CoerceFrom(features, payload, i, row) ==
    IF i > Len(features) THEN [kind |-> "return", row |-> row, exc |-> NoExc]
    ELSE LET r == PyFloat(payload[features[i]])
         IN  IF r.kind = "raise"
             THEN [kind |-> "raise", row |-> << >>, exc |-> r.exc]
             ELSE CoerceFrom(features, payload, i + 1,
                      [g \in DOMAIN row \cup {features[i]} |->
                          IF g = features[i] THEN r.value ELSE row[g]])

\* the comprehension written over the payload's items instead of the features
CoerceAllKeys(features, payload) ==
    LET bad == {k \in DOMAIN payload : PyFloat(payload[k]).kind = "raise"}
    IN  IF bad # {}
        THEN [kind |-> "raise", row |-> << >>,
              exc |-> PyFloat(payload[CHOOSE k \in bad : TRUE]).exc]
        ELSE [kind |-> "return", exc |-> NoExc,
              row |-> [k \in DOMAIN payload |-> PyFloat(payload[k]).value]]

\* the comprehension without the float() call
CoerceNothing(features, payload) ==
    [kind |-> "return", exc |-> NoExc,
     row |-> [f \in {features[i] : i \in 1..Len(features)} |-> payload[f]]]

CoerceRow(features, payload) == CoerceFrom(features, payload, 1, << >>)

\* the frame built without columns=: the row's keys in sorted order
RECURSIVE SortedKeys(_)
SortedKeys(S) ==
    IF S = {} THEN << >>
    ELSE LET k == CHOOSE x \in S : \A y \in S : \E i \in 1..Len(AllFields) :
                      /\ AllFields[i] = x
                      /\ \A j \in 1..Len(AllFields) : AllFields[j] = y => j <= i
         IN  Append(SortedKeys(S \ {k}), k)

BuildFrameKeyOrder(features, row) ==
    LET ks == SortedKeys(DOMAIN row) IN [i \in 1..Len(ks) |-> row[ks[i]]]

\* X = pd.DataFrame([row], columns=self.features): the row in column order
BuildFrame(features, row) == [i \in 1..Len(features) |-> row[features[i]]]

-----------------------------------------------------------------------------
(* One activation of predict_one: its locals and its position *)

NoPayload == << >>
IdleCall ==
    [pc |-> "idle", payload |-> NoPayload, missing |-> << >>, row |-> << >>,
     X |-> << >>, y |-> Unset, outcome |-> Pending, modelCalls |-> 0]

EnterCall(payload) == [IdleCall EXCEPT !.pc = "check", !.payload = payload]

\* lines 85-87: the missing-feature check
CheckStep(svc, call) ==
    LET missing == Missing(svc.features, call.payload)
    IN  IF missing # << >>
        THEN [call EXCEPT !.missing = missing, !.pc = "done",
                          !.outcome = Raised(MissingError(missing))]
        ELSE [call EXCEPT !.missing = missing, !.pc = "coerce"]

\* the conversion written back into the caller's dict:
\* payload[f] = float(payload[f])
CoerceStepInPlace(svc, call) ==
    LET c == CoerceRow(svc.features, call.payload)
    IN  IF c.kind = "raise"
        THEN [call EXCEPT !.pc = "done", !.outcome = Raised(c.exc)]
        ELSE [call EXCEPT !.row = c.row, !.pc = "frame",
                          !.payload = [k \in DOMAIN call.payload |->
                              IF k \in DOMAIN c.row THEN c.row[k]
                              ELSE call.payload[k]]]

\* line 90: the row is a new dict; the payload is only read
CoerceStep(svc, call) ==
    LET c == CoerceRow(svc.features, call.payload)
    IN  IF c.kind = "raise"
        THEN [call EXCEPT !.pc = "done", !.outcome = Raised(c.exc)]
        ELSE [call EXCEPT !.row = c.row, !.pc = "frame"]

\* line 93
FrameStep(svc, call) ==
    [call EXCEPT !.X = BuildFrame(svc.features, call.row), !.pc = "invoke"]

\* line 96
InvokeStep(svc, call) ==
    LET y == ModelPredict(svc.model, call.X)
    IN  IF y.kind = "raise"
        THEN [call EXCEPT !.pc = "done", !.outcome = y,
                          !.modelCalls = call.modelCalls + 1]
        ELSE [call EXCEPT !.y = y.value, !.pc = "unwrap",
                          !.modelCalls = call.modelCalls + 1]

\* line 97
UnwrapStep(svc, call) ==
    [call EXCEPT !.pc = "done", !.outcome = PyFloat(call.y)]

\* predict_one run alone, start to finish
RunAlone(svc, payload) ==
    LET c1 == CheckStep(svc, EnterCall(payload))
    IN  IF c1.pc = "done" THEN c1
        ELSE LET c2 == CoerceStep(svc, c1)
             IN  IF c2.pc = "done" THEN c2
                 ELSE LET c4 == InvokeStep(svc, FrameStep(svc, c2))
                      IN  IF c4.pc = "done" THEN c4 ELSE UnwrapStep(svc, c4)

PredictOne(svc, payload) == RunAlone(svc, payload).outcome

appVars == <<fs, infoFile, modelFile, phase, bootError, loadedInfo, bootPaths,
             readLog, resp>>
resolveVars == <<resolveIn, resolveOut>>

Begin(c, payload) ==
    /\ phase = "ready"
    /\ calls[c].pc = "idle"
    /\ calls' = [calls EXCEPT ![c] = EnterCall(payload)]
    /\ UNCHANGED <<appVars, resolveVars, service>>

CheckMissing(c) ==
    /\ calls[c].pc = "check"
    /\ calls' = [calls EXCEPT ![c] = CheckStep(service, calls[c])]
    /\ UNCHANGED <<appVars, resolveVars, service>>

Coerce(c) ==
    /\ calls[c].pc = "coerce"
    /\ calls' = [calls EXCEPT ![c] = CoerceStep(service, calls[c])]
    /\ UNCHANGED <<appVars, resolveVars, service>>

Frame(c) ==
    /\ calls[c].pc = "frame"
    /\ calls' = [calls EXCEPT ![c] = FrameStep(service, calls[c])]
    /\ UNCHANGED <<appVars, resolveVars, service>>

Invoke(c) ==
    /\ calls[c].pc = "invoke"
    /\ calls' = [calls EXCEPT ![c] = InvokeStep(service, calls[c])]
    /\ UNCHANGED <<appVars, resolveVars, service>>

Unwrap(c) ==
    /\ calls[c].pc = "unwrap"
    /\ calls' = [calls EXCEPT ![c] = UnwrapStep(service, calls[c])]
    /\ UNCHANGED <<appVars, resolveVars, service>>

\* the activation ends: its result (or exception) goes to the caller
Return(c) ==
    /\ calls[c].pc = "done"
    /\ calls' = [calls EXCEPT ![c] = IdleCall]
    /\ UNCHANGED <<appVars, resolveVars, service>>

-----------------------------------------------------------------------------
(* predict_one called directly on a service built from any feature list *)

FeatureNames == {AllFields[1], AllFields[2]}
UnusedKey == "unused_key"
PayloadKeys == FeatureNames \cup {UnusedKey}
PayloadValues == {F(1), NumStr(2), F(FloatMax), NaN, TextStr, PyNone}

RECURSIVE SeqsUpTo(_, _)
SeqsUpTo(S, n) ==
    IF n = 0 THEN {<< >>}
    ELSE LET shorter == SeqsUpTo(S, n - 1)
         IN  shorter \cup {Append(s, x) : s \in shorter, x \in S}

FeatureLists == SeqsUpTo(FeatureNames, MaxFeatures)
Models == {LinearModel(n) : n \in 1..MaxFeatures}
Payloads == UNION {[D -> PayloadValues] : D \in SUBSET PayloadKeys}
Callers == 1..NumCallers

NoBootPaths == [model |-> "", info |-> ""]
NoMeta == [model |-> "", features |-> << >>, r2 |-> JNull, rmse |-> JNull]
NoResp ==
    [endpoint |-> "", status |-> 0, debug |-> FALSE, request |-> NoPayload,
     prediction |-> Unset, features_used |-> NoPayload, detail |-> StrOf(NoExc),
     exc |-> NoExc, meta |-> NoMeta]

InitPredict ==
    /\ fs = {}
    /\ infoFile = << >>
    /\ modelFile = NoModel
    /\ phase = "ready"
    /\ bootError = NoExc
    /\ loadedInfo = NoInfo
    /\ bootPaths = NoBootPaths
    /\ service \in [model : Models, features : FeatureLists]
    /\ readLog = {}
    /\ resp = NoResp
    /\ calls = [c \in Callers |-> IdleCall]
    /\ resolveIn = << >>
    /\ resolveOut = NoPathResult

NextPredict ==
    \/ \E p \in Payloads : Begin(1, p)
    \/ CheckMissing(1)
    \/ Coerce(1)
    \/ Frame(1)
    \/ Invoke(1)
    \/ Unwrap(1)
    \/ Return(1)

SpecPredict == InitPredict /\ [][NextPredict]_vars

-----------------------------------------------------------------------------
(* resolve_existing_path called on any candidates over any filesystem *)

CandidateSeqs == SeqsUpTo(Paths, MaxCands)

InitResolve ==
    /\ fs \in SUBSET Paths
    /\ infoFile = << >>
    /\ modelFile = NoModel
    /\ phase = "boot"
    /\ bootError = NoExc
    /\ loadedInfo = NoInfo
    /\ bootPaths = NoBootPaths
    /\ service = NoService
    /\ readLog = {}
    /\ resp = NoResp
    /\ calls = [c \in Callers |-> IdleCall]
    /\ resolveIn = << >>
    /\ resolveOut = NoPathResult

Resolve(candidates) ==
    /\ resolveIn' = candidates
    /\ resolveOut' = ResolveExistingPath(candidates, fs)
    /\ UNCHANGED <<appVars, service, calls>>

NextResolve == \E candidates \in CandidateSeqs : Resolve(candidates)

SpecResolve == InitResolve /\ [][NextResolve]_vars

-----------------------------------------------------------------------------
(* main.py: the import that builds the service, and the three endpoints *)

\* an exception leaving a handler: the framework answers 500
Propagated(endpoint, e) ==
    [NoResp EXCEPT !.endpoint = endpoint, !.status = 500, !.exc = e]

\* the handler with the except branch inverted on debug
PredictHandlerDebugInverted(svc, req, debug) ==
    LET r == PredictOne(svc, req)
        base == [NoResp EXCEPT !.endpoint = "/predict", !.debug = debug,
                               !.request = req]
    IN  IF r.kind = "return"
        THEN [base EXCEPT !.status = 200, !.prediction = r.value,
                          !.features_used = req]
        ELSE IF ~debug
        THEN [base EXCEPT !.status = 500, !.exc = r.exc]
        ELSE [base EXCEPT !.status = 400, !.detail = StrOf(r.exc)]

\* predict(req, debug): lines 99-110; req is the dict model_dump() gives
PredictHandler(svc, req, debug) ==
    LET r == PredictOne(svc, req)
        base == [NoResp EXCEPT !.endpoint = "/predict", !.debug = debug,
                               !.request = req]
    IN  IF r.kind = "return"
        THEN [base EXCEPT !.status = 200, !.prediction = r.value,
                          !.features_used = req]
        ELSE IF debug
        THEN [base EXCEPT !.status = 500, !.exc = r.exc]
        ELSE [base EXCEPT !.status = 400, !.detail = StrOf(r.exc)]

\* metadata(): _load_model_info() opens DEFAULT_MODEL_INFO_PATH on every request
MetadataHandler(svc, exists, infoObj) ==
    IF DEFAULT_MODEL_INFO_PATH \notin exists
    THEN Propagated("/metadata", FileNotFound(DEFAULT_MODEL_INFO_PATH))
    ELSE [NoResp EXCEPT !.endpoint = "/metadata", !.status = 200,
                        !.meta = [model |-> "model2_linear_regression.pkl",
                                  features |-> svc.features,
                                  r2 |-> Get(infoObj, "model2_r2"),
                                  rmse |-> Get(infoObj, "model2_rmse")]]

\* the entries a model2_features list may hold: two request fields, a name the
\* request schema lacks, and a number
OtherFeature == "Bedrooms"
ItemPool == {JStr(AllFields[1]), JStr(AllFields[2]), JStr(OtherFeature), JNum}
FeatureValues ==
    {JNull, JNum, JStr(AllFields[1])} \cup {JList(l) : l \in SeqsUpTo(ItemPool, MaxFeatures)}
InfoFiles ==
    {[k \in {"model2_r2"} |-> JNum]}
    \cup {[k \in {"model2_features", "model2_r2"} |->
              IF k = "model2_features" THEN v ELSE JNum] : v \in FeatureValues}
RequestValues == {F(1), NaN}
Requests == [{RequestFields[i] : i \in 1..Len(RequestFields)} -> RequestValues]

Init ==
    /\ fs \in SUBSET Paths
    /\ infoFile \in InfoFiles
    /\ modelFile \in Models
    /\ phase = "boot"
    /\ bootError = NoExc
    /\ loadedInfo = NoInfo
    /\ bootPaths = NoBootPaths
    /\ service = NoService
    /\ readLog = {}
    /\ resp = NoResp
    /\ calls = [c \in Callers |-> IdleCall]
    /\ resolveIn = << >>
    /\ resolveOut = NoPathResult

\* import main: the default arguments of build_default_service are resolved,
\* then line 68 builds the one service; an exception aborts the import
Startup ==
    /\ phase = "boot"
    /\ LET mp == ResolveExistingPath(<<DEFAULT_MODEL_PATH, ALT_MODEL_PATH>>, fs).path
           ip == ResolveExistingPath(
                     <<DEFAULT_MODEL_INFO_PATH, ALT_MODEL_INFO_PATH>>, fs).path
           b == BuildDefaultService(mp, ip, fs, infoFile, modelFile)
       IN  /\ bootPaths' = [model |-> mp, info |-> ip]
           /\ phase' = IF b.exc = NoExc THEN "ready" ELSE "failed"
           /\ bootError' = b.exc
           /\ loadedInfo' = b.info
           /\ service' = b.service
           /\ readLog' = b.reads
    /\ UNCHANGED <<fs, infoFile, modelFile, resp, calls, resolveVars>>

Health ==
    /\ phase = "ready"
    /\ resp' = [NoResp EXCEPT !.endpoint = "/health", !.status = 200]
    /\ UNCHANGED <<fs, infoFile, modelFile, phase, bootError, loadedInfo, bootPaths,
                   service, readLog, calls, resolveVars>>

Metadata ==
    /\ phase = "ready"
    /\ resp' = MetadataHandler(service, fs, infoFile)
    /\ readLog' = readLog \cup
          {[path |-> DEFAULT_MODEL_INFO_PATH, during |-> "/metadata",
            ok |-> DEFAULT_MODEL_INFO_PATH \in fs]}
    /\ UNCHANGED <<fs, infoFile, modelFile, phase, bootError, loadedInfo, bootPaths,
                   service, calls, resolveVars>>

Predict(req, debug) ==
    /\ phase = "ready"
    /\ resp' = PredictHandler(service, req, debug)
    /\ UNCHANGED <<fs, infoFile, modelFile, phase, bootError, loadedInfo, bootPaths,
                   service, readLog, calls, resolveVars>>

\* the environment deletes an artifact file while the server runs
RemoveFile(p) ==
    /\ phase = "ready"
    /\ p \in fs
    /\ fs' = fs \ {p}
    /\ UNCHANGED <<infoFile, modelFile, phase, bootError, loadedInfo, bootPaths,
                   service, readLog, resp, calls, resolveVars>>

Next ==
    \/ Startup
    \/ Health
    \/ Metadata
    \/ \E req \in Requests, debug \in BOOLEAN : Predict(req, debug)
    \/ \E p \in Paths : RemoveFile(p)

Spec == Init /\ [][Next]_vars

-----------------------------------------------------------------------------
(* Several callers inside predict_one of the one shared service at once *)

ConcPayloads == UNION {[D -> {NumStr(2), TextStr}] : D \in SUBSET FeatureNames}
ConcServices ==
    {[model |-> LinearModel(Len(fl)), features |-> fl] :
        fl \in {<<AllFields[1]>>, <<AllFields[2], AllFields[1]>>}}

InitConc ==
    /\ fs = {}
    /\ infoFile = << >>
    /\ modelFile = NoModel
    /\ phase = "ready"
    /\ bootError = NoExc
    /\ loadedInfo = NoInfo
    /\ bootPaths = NoBootPaths
    /\ service \in ConcServices
    /\ readLog = {}
    /\ resp = NoResp
    /\ calls = [c \in Callers |-> IdleCall]
    /\ resolveIn = << >>
    /\ resolveOut = NoPathResult

NextConc ==
    \E c \in Callers :
        \/ \E p \in ConcPayloads : Begin(c, p)
        \/ CheckMissing(c)
        \/ Coerce(c)
        \/ Frame(c)
        \/ Invoke(c)
        \/ Unwrap(c)
        \/ Return(c)

SpecConc == InitConc /\ [][NextConc]_vars

-----------------------------------------------------------------------------
(* Claims about predict_one (SpecPredict) *)

Features == service.features
FeatureSet == {Features[i] : i \in 1..Len(Features)}
HasAll(payload) == FeatureSet \subseteq DOMAIN payload
Convertible(x) == x.t \in {"float", "float_inf", "float_nan", "int", "str_num"}
\* the number a convertible value stands for
NumberOf(x) == IF IsFloat(x) THEN x ELSE F(x.v)
Finished(c) == calls[c].pc = "done"
Started(c) == calls[c].pc # "idle"

\* C1: a payload lacking at least one feature makes predict_one raise the
\* validation error whose listed names are exactly the features absent from the
\* payload, in feature-list order, and the model is not invoked on that call.
C1_MissingListedExactly ==
    \A c \in Callers :
        LET call == calls[c]
            Absent(f) == f \notin DOMAIN call.payload
        IN  (Started(c) /\ ~HasAll(call.payload)) =>
                /\ call.pc \in {"check", "done"}
                /\ call.modelCalls = 0
                /\ Finished(c) =>
                      /\ call.outcome.kind = "raise"
                      /\ call.outcome.exc.type = "ValueError"
                      /\ call.outcome.exc.text = "Missing features: "
                      /\ call.outcome.exc.names = SelectSeq(Features, Absent)

\* a finished call whose payload lacks two distinct features and has a third key
C1_Witness ==
    \E c \in Callers :
        /\ Finished(c)
        /\ Len(calls[c].outcome.exc.names) = 2
        /\ calls[c].outcome.exc.names[1] # calls[c].outcome.exc.names[2]
        /\ UnusedKey \in DOMAIN calls[c].payload

\* C2 as stated: every payload holding every required feature yields a finite
\* float and no exception.
C2_FiniteFloatNeverRaises ==
    \A c \in Callers :
        (Finished(c) /\ HasAll(calls[c].payload)) =>
            /\ calls[c].outcome.kind = "return"
            /\ IsFinite(calls[c].outcome.value)

\* C2 amended: when every required feature is present with a value that
\* converts to a finite float, and the feature list has the width the model was
\* fitted on, predict_one raises nothing, invokes the model once and returns the
\* model's prediction intercept + coef . x over the converted values in
\* feature-list order; the result is finite unless that sum leaves the float
\* range, and then it is +-inf.
C2_ReturnsPredictionForNumericPayload ==
    \A c \in Callers :
        LET call == calls[c]
            x == [i \in 1..Len(Features) |-> NumberOf(call.payload[Features[i]])]
            sum == service.model.intercept
                     + Dot(service.model.coef, x, 1)
        IN  (/\ Finished(c)
             /\ HasAll(call.payload)
             /\ Len(Features) = Len(service.model.coef)
             /\ \A i \in 1..Len(Features) :
                    /\ Convertible(call.payload[Features[i]])
                    /\ IsFinite(NumberOf(call.payload[Features[i]]))) =>
                /\ call.outcome.kind = "return"
                /\ call.modelCalls = 1
                /\ IsFloat(call.outcome.value)
                /\ (sum \in -FloatMax..FloatMax) => call.outcome.value = F(sum)
                /\ sum > FloatMax => call.outcome.value = PosInf
                /\ sum < -FloatMax => call.outcome.value = NegInf

\* a two-feature call on numeric text and a float, returning a finite prediction
\* that depends on the column order
C2_Witness ==
    \E c \in Callers :
        /\ Finished(c)
        /\ Features = <<AllFields[2], AllFields[1]>>
        /\ HasAll(calls[c].payload)
        /\ calls[c].payload[AllFields[1]] = NumStr(2)
        /\ calls[c].payload[AllFields[2]] = F(1)
        /\ calls[c].outcome = Returned(F(6))

\* C3 as stated: a required value that cannot convert makes predict_one raise a
\* TypeError, a kind other than the missing-features error's, also when the
\* payload lacks another required feature.
C3_TypeErrorOnUnconvertible ==
    \A c \in Callers :
        (/\ Finished(c)
         /\ \E f \in FeatureSet \cap DOMAIN calls[c].payload :
                ~Convertible(calls[c].payload[f])) =>
            /\ calls[c].outcome.kind = "raise"
            /\ calls[c].outcome.exc.type = "TypeError"
            /\ calls[c].outcome.exc.type # MissingError(<< >>).type

\* C3 amended: when every required feature is present and some required value
\* cannot convert, predict_one raises, without invoking the model, what float()
\* raises for the first such value in feature-list order: a TypeError for a
\* value that is neither text nor a number (None), a ValueError (the class of
\* the missing-features error, with another message and no names) for
\* non-numeric text.  When a required feature is missing as well, the
\* missing-features error is raised instead.
C3_CoercionErrorOfFirstBadValue ==
    \A c \in Callers :
        LET call == calls[c]
            bad == {i \in 1..Len(Features) :
                       /\ Features[i] \in DOMAIN call.payload
                       /\ ~Convertible(call.payload[Features[i]])}
            first == CHOOSE i \in bad : \A j \in bad : i <= j
        IN  (Finished(c) /\ bad # {}) =>
                /\ call.outcome.kind = "raise"
                /\ call.modelCalls = 0
                /\ HasAll(call.payload) =>
                      /\ call.outcome.exc.names = << >>
                      /\ call.outcome.exc.text # "Missing features: "
                      /\ call.outcome.exc.type =
                            IF call.payload[Features[first]].t = "str_text"
                            THEN "ValueError" ELSE "TypeError"
                /\ ~HasAll(call.payload) =>
                      /\ call.outcome.exc.text = "Missing features: "
                      /\ call.outcome.exc.type = "ValueError"

\* a finished call whose first feature holds text and whose second holds None
C3_Witness ==
    \E c \in Callers :
        /\ Finished(c)
        /\ Len(Features) = 2
        /\ HasAll(calls[c].payload)
        /\ calls[c].payload[Features[1]] = TextStr
        /\ calls[c].payload[Features[2]] = PyNone
        /\ calls[c].outcome.exc.type = "ValueError"

\* C4: a key outside the feature list, whatever its value, changes nothing:
\* the finished call and the same call with that key added, changed or removed
\* end alike (same prediction or same exception with the same names), with the
\* same vector handed to the model and the same number of model calls.
C4_ExtraKeysIgnored ==
    \A c \in Callers :
        Finished(c) =>
            \A k \in PayloadKeys \ FeatureSet :
                LET P == calls[c].payload
                    without == [j \in DOMAIN P \ {k} |-> P[j]]
                    Same(other) ==
                        /\ other.outcome = calls[c].outcome
                        /\ other.X = calls[c].X
                        /\ other.modelCalls = calls[c].modelCalls
                IN  /\ Same(RunAlone(service, without))
                    /\ \A v \in PayloadValues :
                           Same(RunAlone(service,
                                  [j \in DOMAIN P \cup {k} |->
                                      IF j = k THEN v ELSE P[j]]))

\* a call that returned a prediction although its payload carries an unused key
\* holding text
C4_Witness ==
    \E c \in Callers :
        /\ Finished(c)
        /\ UnusedKey \in DOMAIN calls[c].payload
        /\ calls[c].payload[UnusedKey] = TextStr
        /\ UnusedKey \notin FeatureSet
        /\ calls[c].outcome.kind = "return"
        /\ Len(calls[c].X) = 2

-----------------------------------------------------------------------------
(* Claims about resolve_existing_path (SpecResolve) *)

Called == resolveOut.kind # "none"
ExistingAt == {i \in 1..Len(resolveIn) : resolveIn[i] \in fs}

\* C5 as stated: for any candidate sequence the call returns the first existing
\* candidate, or the first candidate when none exists, always a member of the
\* sequence, and never raises.
C5_FirstExistingNeverRaises ==
    Called =>
        /\ resolveOut.kind = "return"
        /\ \E i \in 1..Len(resolveIn) : resolveOut.path = resolveIn[i]
        /\ ExistingAt # {} =>
              resolveOut.path =
                  resolveIn[CHOOSE i \in ExistingAt : \A j \in ExistingAt : i <= j]
        /\ ExistingAt = {} => resolveOut.path = resolveIn[1]

\* C5 amended: for any non-empty candidate sequence the call returns, without
\* raising, the lowest-index candidate that exists, or the first candidate when
\* none exists, always a member of the sequence; with no candidates at all it
\* raises IndexError.
C5_FirstExistingOfNonEmpty ==
    Called =>
        /\ Len(resolveIn) = 0 =>
              /\ resolveOut.kind = "raise"
              /\ resolveOut.exc.type = "IndexError"
        /\ Len(resolveIn) > 0 =>
              /\ resolveOut.kind = "return"
              /\ \E i \in 1..Len(resolveIn) : resolveOut.path = resolveIn[i]
              /\ ExistingAt # {} =>
                    /\ resolveOut.path \in fs
                    /\ \A j \in 1..Len(resolveIn) :
                           resolveIn[j] \in fs =>
                               \E i \in 1..j : resolveIn[i] = resolveOut.path
                    /\ resolveOut.path =
                           resolveIn[CHOOSE i \in ExistingAt :
                                         \A j \in ExistingAt : i <= j]
              /\ ExistingAt = {} => resolveOut.path = resolveIn[1]

\* [A, B, C] with B and C existing and A not: B is returned
C5_Witness ==
    /\ Len(resolveIn) = 3
    /\ ExistingAt = {2, 3}
    /\ resolveIn[2] # resolveIn[3]
    /\ resolveOut = PathResult(resolveIn[2])

-----------------------------------------------------------------------------
(* Claims about the factory and the endpoints (Spec) *)

MetaFeatures == Get(loadedInfo.obj, "model2_features")
\* a list of strings, said without the factory's own check
IsStringList(v) ==
    /\ v.t = "list"
    /\ ~\E i \in 1..Len(v.items) : v.items[i].t # "str"

\* C6: once build_default_service has read a metadata record whose
\* model2_features is missing, not a list, or a list with a non-string entry, it
\* has failed with the configuration error and there is no service; and a
\* service that was built has as feature list the strings of model2_features,
\* same elements, same order.
C6_InvalidMetadataIsConfigError ==
    /\ (/\ loadedInfo.loaded
        /\ \/ "model2_features" \notin DOMAIN loadedInfo.obj
           \/ ~IsStringList(loadedInfo.obj["model2_features"])) =>
            /\ phase = "failed"
            /\ service = NoService
            /\ bootError.type = "ValueError"
            /\ bootError.text = "model_info.json missing valid 'model2_features' list"
    /\ phase = "ready" =>
            /\ loadedInfo.loaded
            /\ "model2_features" \in DOMAIN loadedInfo.obj
            /\ IsStringList(MetaFeatures)
            /\ Len(service.features) = Len(MetaFeatures.items)
            /\ \A i \in 1..Len(service.features) :
                   MetaFeatures.items[i] = JStr(service.features[i])

\* the import failed on a two-entry list whose second entry is a number, with
\* both artifact files in place
C6_Witness ==
    /\ phase = "failed"
    /\ loadedInfo.loaded
    /\ MetaFeatures.t = "list"
    /\ Len(MetaFeatures.items) = 2
    /\ MetaFeatures.items[1].t = "str"
    /\ MetaFeatures.items[2].t = "number"
    /\ DEFAULT_MODEL_PATH \in fs
    /\ bootError = ConfigError

\* C7: on every successful /predict the response's features_used has exactly
\* the service's features as keys, each with the value fed to the model.
C7_FeaturesUsedIsModelInput ==
    (resp.endpoint = "/predict" /\ resp.status = 200) =>
        /\ DOMAIN resp.features_used = FeatureSet
        /\ \A i \in 1..Len(Features) :
               /\ Features[i] \in DOMAIN resp.features_used
               /\ resp.features_used[Features[i]]
                      = RunAlone(service, resp.request).X[i]

PredictFailed == resp.endpoint = "/predict" /\ PredictOne(service, resp.request).kind = "raise"

\* C8: a /predict request on which predict_one raises ends, with debug off, as
\* HTTP 400 whose detail is the error's message and, with debug on, with that
\* very exception propagated; it never ends as a success; a request on which
\* predict_one returns ends as the 200 answer carrying that prediction, whatever
\* failed before; and no step of a running server changes the shared service.
C8_ErrorsTranslatedAtBoundary ==
    /\ [](PredictFailed =>
            LET e == PredictOne(service, resp.request).exc
            IN  /\ resp.status # 200
                /\ resp.prediction = Unset
                /\ resp.features_used = NoPayload
                /\ ~resp.debug =>
                      /\ resp.status = 400
                      /\ resp.detail = [text |-> e.text, names |-> e.names]
                      /\ resp.exc = NoExc
                /\ resp.debug =>
                      /\ resp.exc = e
                      /\ resp.detail = StrOf(NoExc))
    /\ []((resp.endpoint = "/predict" /\ ~PredictFailed) =>
            /\ resp.status = 200
            /\ resp.prediction = PredictOne(service, resp.request).value
            /\ resp.exc = NoExc)
    /\ [][phase = "ready" => service' = service]_vars

\* a request refused with 400 for a missing feature, debug off
C8_Witness ==
    /\ resp.endpoint = "/predict"
    /\ resp.status = 400
    /\ ~resp.debug
    /\ resp.detail = [text |-> "Missing features: ", names |-> <<OtherFeature>>]
    /\ Len(Features) = 2

\* C9: after startup no request reads a file, so none fails for a missing
\* artifact, and any read after startup would target the path startup resolved.
C9_NoFileReadAfterStartup ==
    /\ \A r \in readLog : r.during = "startup"
    /\ resp.exc.type # "FileNotFoundError"
    /\ \A r \in readLog :
           r.during # "startup" => r.path \in {bootPaths.model, bootPaths.info}

-----------------------------------------------------------------------------
(* Claims about concurrent callers (SpecConc) *)

\* C10: however the statements of concurrent predict_one calls interleave, no
\* step changes the service's model or feature list or the payload of a call
\* in progress, and every call ends as the same call run alone ends: same
\* outcome, same vector handed to the model, same number of model calls.
C10_NoSideEffectsUnderInterleaving ==
    /\ [](\A c \in Callers :
            Finished(c) =>
                LET alone == RunAlone(service, calls[c].payload)
                IN  /\ calls[c].outcome = alone.outcome
                    /\ calls[c].X = alone.X
                    /\ calls[c].modelCalls = alone.modelCalls)
    /\ [][/\ service'.model = service.model
          /\ service'.features = service.features
          /\ \A c \in Callers :
                 (Started(c) /\ calls'[c].pc # "idle") =>
                     calls'[c].payload = calls[c].payload]_vars

\* caller 1 has returned a prediction while caller 2, on another payload, has
\* raised and caller 1's payload still holds the text it was given
C10_Witness ==
    /\ Finished(1)
    /\ calls[1].outcome.kind = "return"
    /\ \E f \in DOMAIN calls[1].payload : calls[1].payload[f] = NumStr(2)
    /\ Finished(2)
    /\ calls[2].outcome.kind = "raise"

====
